---- MODULE Spec2Model ----
(***************************************************************************)
(* Model of scripts/read_socket.py: the coroutine listen(), which connects *)
(* to ws://localhost:3001, prints every received JSON log frame as         *)
(* "[type] message" and reconnects when the connection ends.               *)
(*                                                                         *)
(* The client is one sequential task; pc is the statement it is at.  The   *)
(* peer (the server, the network) is the environment: it decides whether a *)
(* connect succeeds, which frames arrive and how a connection ends.        *)
(***************************************************************************)
EXTENDS Naturals, Sequences, FiniteSets

\* ------------------------------------------------------------------ bounds
\* Calls of websockets.connect the model follows.
MaxAttempts == 3
\* Frames the peer sends in one run.
MaxSent == 2

\* ------------------------------------------------------- program constants
\* asyncio.sleep(5)
RetryDelay == 5

ConnectionClosedMsg == "Connection closed."
ErrorPrefix == "An error occurred: "
ConnectionFailedMsg == "Connection failed. Retrying in 5 seconds..."

\* ------------------------------------------------------------ JSON frames
\* A frame is the token sequence of its text.  String literals are the
\* tokens in StringLits, number literals those in NumberLits.
StringLits == {"type", "message", "INFO", "ERROR", "started", "disk full"}
NumberLits == {"7"}

\* The JSON text of the object {"type": T, "message": M}.
Frame(T, M) == <<"{", "type", ":", T, ",", "message", ":", M, "}">>

LogTypes == {"INFO", "ERROR"}
LogMessages == {"started", "disk full"}

FrameInfo == Frame("INFO", "started")
FrameError == Frame("ERROR", "disk full")
\* Text cut off in the middle of an object: not valid JSON.
FrameTruncated == <<"{", "type", ":", "INFO", ",">>
\* A bare word: not valid JSON.
FrameGarbage == <<"oops">>
\* Valid JSON objects lacking one of the two keys.
FrameNoMessage == <<"{", "type", ":", "INFO", "}">>
FrameNoType == <<"{", "message", ":", "started", "}">>
\* Valid JSON that is not an object.
FrameArray == <<"[", "7", "]">>

\* Valid JSON objects with both keys, one value not a string.
FrameNumberType == <<"{", "type", ":", "7", ",", "message", ":", "started", "}">>
FrameNullMessage == <<"{", "type", ":", "INFO", ",", "message", ":", "null", "}">>
FrameBoolMessage == <<"{", "type", ":", "INFO", ",", "message", ":", "true", "}">>
FrameArrayMessage == <<"{", "type", ":", "INFO", ",", "message", ":", "[", "7", "]", "}">>
FrameObjectType == <<"{", "type", ":", "{", "}", ",", "message", ":", "started", "}">>
\* Valid JSON that is a string, a number, null.
FrameString == <<"INFO">>
FrameNumber == <<"7">>
FrameNull == <<"null">>

WellFormedFrames == {Frame(T, M) : T \in LogTypes, M \in LogMessages}
InvalidJsonFrames == {FrameTruncated, FrameGarbage}
MissingFieldFrames == {FrameNoMessage, FrameNoType}
MalformedFrames == InvalidJsonFrames \cup MissingFieldFrames
Frames == WellFormedFrames \cup MalformedFrames \cup {FrameArray}

NonStringValueFrames ==
    {FrameNumberType, FrameNullMessage, FrameBoolMessage, FrameArrayMessage,
     FrameObjectType}
NonObjectFrames == {FrameArray, FrameString, FrameNumber, FrameNull}
TypedFrames == NonStringValueFrames \cup NonObjectFrames

\* ------------------------------------------------------ Python values
PyStrVal(s) == [t |-> "str", v |-> s, items |-> <<>>]
PyIntVal(s) == [t |-> "int", v |-> s, items |-> <<>>]
PyBoolVal(s) == [t |-> "bool", v |-> s, items |-> <<>>]
PyNone == [t |-> "NoneType", v |-> "None", items |-> <<>>]
PyList(xs) == [t |-> "list", v |-> "", items |-> xs]
PyDict(kvs) == [t |-> "dict", v |-> "", items |-> kvs]

\* ---------------------------------------------------------- json.loads
ParseOk(val, next) == [ok |-> TRUE, val |-> val, next |-> next, msg |-> ""]
ParseFail(msg) == [ok |-> FALSE, val |-> PyNone, next |-> 0, msg |-> msg]

RECURSIVE ParseValue(_, _)
RECURSIVE ParseMembers(_, _, _)
RECURSIVE ParseElements(_, _, _)

\* The members of an object from token i on: "key" : value, then , or }.
ParseMembers(toks, i, acc) ==
    IF i > Len(toks) \/ toks[i] \notin StringLits
    THEN ParseFail("Expecting property name enclosed in double quotes")
    ELSE IF i + 1 > Len(toks) \/ toks[i + 1] # ":"
    THEN ParseFail("Expecting ':' delimiter")
    ELSE LET r == ParseValue(toks, i + 2)
             acc2 == Append(acc, [k |-> toks[i], val |-> r.val])
         IN  IF ~r.ok THEN r
             ELSE IF r.next <= Len(toks) /\ toks[r.next] = "}"
             THEN ParseOk(PyDict(acc2), r.next + 1)
             ELSE IF r.next <= Len(toks) /\ toks[r.next] = ","
             THEN ParseMembers(toks, r.next + 1, acc2)
             ELSE ParseFail("Expecting ',' delimiter")

\* The elements of an array from token i on: value, then , or ].
ParseElements(toks, i, acc) ==
    LET r == ParseValue(toks, i)
        acc2 == Append(acc, [k |-> "", val |-> r.val])
    IN  IF ~r.ok THEN r
        ELSE IF r.next <= Len(toks) /\ toks[r.next] = "]"
        THEN ParseOk(PyList(acc2), r.next + 1)
        ELSE IF r.next <= Len(toks) /\ toks[r.next] = ","
        THEN ParseElements(toks, r.next + 1, acc2)
        ELSE ParseFail("Expecting ',' delimiter")

ParseValue(toks, i) ==
    IF i > Len(toks) THEN ParseFail("Expecting value")
    ELSE LET tok == toks[i]
             more == i + 1 <= Len(toks)
         IN  CASE tok \in StringLits -> ParseOk(PyStrVal(tok), i + 1)
               [] tok \in NumberLits -> ParseOk(PyIntVal(tok), i + 1)
               [] tok = "true" -> ParseOk(PyBoolVal("True"), i + 1)
               [] tok = "false" -> ParseOk(PyBoolVal("False"), i + 1)
               [] tok = "null" -> ParseOk(PyNone, i + 1)
               [] tok = "{" -> IF more /\ toks[i + 1] = "}"
                               THEN ParseOk(PyDict(<<>>), i + 2)
                               ELSE ParseMembers(toks, i + 1, <<>>)
               [] tok = "[" -> IF more /\ toks[i + 1] = "]"
                               THEN ParseOk(PyList(<<>>), i + 2)
                               ELSE ParseElements(toks, i + 1, <<>>)
               [] OTHER -> ParseFail("Expecting value")

\* json.loads(message): the value, or the JSONDecodeError it raises.
json_loads(toks) ==
    LET r == ParseValue(toks, 1)
    IN  IF ~r.ok THEN [ok |-> FALSE, val |-> PyNone,
                       exc |-> [cls |-> "JSONDecodeError", msg |-> r.msg]]
        ELSE IF r.next # Len(toks) + 1
        THEN [ok |-> FALSE, val |-> PyNone,
              exc |-> [cls |-> "JSONDecodeError", msg |-> "Extra data"]]
        ELSE [ok |-> TRUE, val |-> r.val, exc |-> [cls |-> "", msg |-> ""]]

\* ------------------------------------------------- subscripting and str()
RECURSIVE PyRepr(_)
RECURSIVE ReprItems(_, _)

\* The items of a list or dict display, separated by ", ".
ReprItems(kvs, isDict) ==
    IF kvs = <<>> THEN ""
    ELSE LET one == IF isDict
                    THEN "'" \o kvs[1].k \o "': " \o PyRepr(kvs[1].val)
                    ELSE PyRepr(kvs[1].val)
         IN  IF Len(kvs) = 1 THEN one
             ELSE one \o ", " \o ReprItems(Tail(kvs), isDict)

\* A dict display shows each key once, with the value stored last.
DictView(kvs) ==
    SelectSeq([i \in 1..Len(kvs) |->
                  IF \E j \in 1..(i - 1) : kvs[j].k = kvs[i].k
                  THEN [k |-> "", val |-> PyNone]
                  ELSE [k |-> kvs[i].k,
                        val |-> kvs[CHOOSE j \in i..Len(kvs) :
                                      /\ kvs[j].k = kvs[i].k
                                      /\ \A h \in (j + 1)..Len(kvs) : kvs[h].k # kvs[i].k].val]],
              LAMBDA e : e.k # "")

PyRepr(val) ==
    CASE val.t = "str" -> "'" \o val.v \o "'"
      [] val.t = "list" -> "[" \o ReprItems(val.items, FALSE) \o "]"
      [] val.t = "dict" -> "{" \o ReprItems(DictView(val.items), TRUE) \o "}"
      [] OTHER -> val.v

\* str(val), as an f-string field formats it.
PyStr(val) == IF val.t = "str" THEN val.v ELSE PyRepr(val)

\* val[key] for a str key: the item, or the exception raised.
GetItem(val, key) ==
    LET hits == {i \in 1..Len(val.items) : val.items[i].k = key}
        last == CHOOSE i \in hits : \A j \in hits : j <= i
        raise(cls, msg) == [ok |-> FALSE, val |-> PyNone,
                            exc |-> [cls |-> cls, msg |-> msg]]
    IN  CASE val.t = "dict" ->
               IF hits = {} THEN raise("KeyError", "'" \o key \o "'")
               ELSE [ok |-> TRUE, val |-> val.items[last].val,
                     exc |-> [cls |-> "", msg |-> ""]]
          [] val.t = "list" ->
               raise("TypeError", "list indices must be integers or slices, not str")
          [] val.t = "str" ->
               raise("TypeError", "string indices must be integers, not 'str'")
          [] OTHER ->
               raise("TypeError", "'" \o val.t \o "' object is not subscriptable")

\* FormatLine with the space after the bracket left out.
FormatLine_NoSpace(log_data) ==
    LET ty == GetItem(log_data, "type")
        msg == GetItem(log_data, "message")
    IN  IF ~ty.ok THEN [ok |-> FALSE, line |-> "", exc |-> ty.exc]
        ELSE IF ~msg.ok THEN [ok |-> FALSE, line |-> "", exc |-> msg.exc]
        ELSE [ok |-> TRUE,
              line |-> "[" \o PyStr(ty.val) \o "]" \o PyStr(msg.val),
              exc |-> [cls |-> "", msg |-> ""]]

\* FormatLine reading the fields with log_data.get(key): a missing key is
\* None instead of a KeyError.
FormatLine_Get(log_data) ==
    LET get(key) == LET r == GetItem(log_data, key)
                    IN  IF r.ok \/ r.exc.cls # "KeyError" THEN r
                        ELSE [ok |-> TRUE, val |-> PyNone,
                              exc |-> [cls |-> "", msg |-> ""]]
        ty == get("type")
        msg == get("message")
    IN  IF ~ty.ok THEN [ok |-> FALSE, line |-> "", exc |-> ty.exc]
        ELSE IF ~msg.ok THEN [ok |-> FALSE, line |-> "", exc |-> msg.exc]
        ELSE [ok |-> TRUE,
              line |-> "[" \o PyStr(ty.val) \o "] " \o PyStr(msg.val),
              exc |-> [cls |-> "", msg |-> ""]]

\* FormatLine requiring both fields to be str.
FormatLine_StrOnly(log_data) ==
    LET ty == GetItem(log_data, "type")
        msg == GetItem(log_data, "message")
        bad == [cls |-> "TypeError", msg |-> "field is not a string"]
    IN  IF ~ty.ok THEN [ok |-> FALSE, line |-> "", exc |-> ty.exc]
        ELSE IF ~msg.ok THEN [ok |-> FALSE, line |-> "", exc |-> msg.exc]
        ELSE IF ty.val.t # "str" \/ msg.val.t # "str"
        THEN [ok |-> FALSE, line |-> "", exc |-> bad]
        ELSE [ok |-> TRUE,
              line |-> "[" \o PyStr(ty.val) \o "] " \o PyStr(msg.val),
              exc |-> [cls |-> "", msg |-> ""]]

\* f"[{log_data['type']}] {log_data['message']}": the line, or the exception
\* of the first field that fails.  Nothing is printed unless both succeed.
FormatLine(log_data) ==
    LET ty == GetItem(log_data, "type")
        msg == GetItem(log_data, "message")
    IN  IF ~ty.ok THEN [ok |-> FALSE, line |-> "", exc |-> ty.exc]
        ELSE IF ~msg.ok THEN [ok |-> FALSE, line |-> "", exc |-> msg.exc]
        ELSE [ok |-> TRUE,
              line |-> "[" \o PyStr(ty.val) \o "] " \o PyStr(msg.val),
              exc |-> [cls |-> "", msg |-> ""]]

\* print writing the line twice.
print_Twice(out, line) == Append(Append(out, line), line)

\* print(line): standard output with the line added.
print(out, line) == Append(out, line)

\* ------------------------------------------------------ exception classes
NoExc == [cls |-> "", msg |-> ""]

\* The classes an exception of class cls is an instance of.
Mro(cls) ==
    CASE cls = "ConnectionRefusedError" ->
           {"ConnectionRefusedError", "ConnectionError", "OSError", "Exception"}
      [] cls = "InvalidHandshake" ->
           {"InvalidHandshake", "WebSocketException", "Exception"}
      [] cls = "ConnectionClosedOK" ->
           {"ConnectionClosedOK", "ConnectionClosed", "WebSocketException", "Exception"}
      [] cls = "ConnectionClosedError" ->
           {"ConnectionClosedError", "ConnectionClosed", "WebSocketException", "Exception"}
      [] cls = "JSONDecodeError" -> {"JSONDecodeError", "ValueError", "Exception"}
      [] cls = "KeyError" -> {"KeyError", "LookupError", "Exception"}
      [] cls = "TypeError" -> {"TypeError", "Exception"}
      [] OTHER -> {cls}

\* The outer except clause without OSError.
OuterCaught_NoOSError == {"ConnectionClosedError"}

\* except (OSError, websockets.exceptions.ConnectionClosedError)
OuterCaught == {"OSError", "ConnectionClosedError"}

\* Where an exception raised by websockets.connect(uri) lands.
OuterDispatch(e) ==
    IF Mro(e.cls) \cap OuterCaught # {} THEN "except_failed" ELSE "raised"

\* InnerDispatch with the two inner except clauses in the other order.
InnerDispatch_ExceptionFirst(e) ==
    IF "Exception" \in Mro(e.cls) THEN "except_error"
    ELSE IF "ConnectionClosed" \in Mro(e.cls) THEN "except_closed"
    ELSE OuterDispatch(e)

\* Where an exception raised inside the inner try lands.
InnerDispatch(e) ==
    IF "ConnectionClosed" \in Mro(e.cls) THEN "except_closed"
    ELSE IF "Exception" \in Mro(e.cls) THEN "except_error"
    ELSE OuterDispatch(e)

\* ------------------------------------------------------------------ state
VARIABLES
    pc,          \* the statement listen() is at
    open,        \* websocket connections the client holds open
    message,     \* the local `message` (line 13)
    log_data,    \* the local `log_data` (line 14)
    exc,         \* the exception being handled
    stdout,      \* the lines printed so far
    server,      \* the peer: "down", "bad" (answers, but not a WebSocket upgrade), "up"
    wire,        \* frames sent on the open connection and not yet received
    peer_closed, \* how the peer ended the open connection: "no", "ok", "error"
    attempts,    \* history: calls of websockets.connect so far
    sent,        \* history: frames the peer has sent so far
    cause,       \* history: what ended the last connect or connection
    waited,      \* history: seconds slept since the last connect call
    fails,       \* history: connect calls in a row that raised OSError
    failures,    \* history: failures of any kind so far
    received,    \* history: frames received since the last connect call
    mark         \* history: Len(stdout) at the last connect call

vars == <<pc, open, message, log_data, exc, stdout, server, wire, peer_closed,
          attempts, sent, cause, waited, fails, failures, received, mark>>

client == <<pc, open, message, log_data, exc, stdout>>
history == <<attempts, cause, waited, fails, failures, received, mark>>

Init ==
    /\ pc = "connect"
    /\ open = 0
    /\ message = <<>>
    /\ log_data = PyNone
    /\ exc = NoExc
    /\ stdout = <<>>
    /\ server \in {"down", "bad", "up"}
    /\ wire = <<>>
    /\ peer_closed = "no"
    /\ attempts = 0
    /\ sent = 0
    /\ cause = "start"
    /\ waited = 0
    /\ fails = 0
    /\ failures = 0
    /\ received = <<>>
    /\ mark = 0

\* ------------------------------------------------------------ environment
\* The peer starts or stops listening, or listens without speaking WebSocket.
\* The client observes this only when it calls connect, so the change is
\* taken while the client is at the connect.
ServerSet(s) ==
    /\ pc = "connect"
    /\ s # server
    /\ server' = s
    /\ UNCHANGED <<client, wire, peer_closed, sent, history>>

\* The peer sends a text frame on the open connection.
ServerSend(f) ==
    /\ open > 0
    /\ peer_closed = "no"
    /\ sent < MaxSent
    /\ wire' = Append(wire, f)
    /\ sent' = sent + 1
    /\ UNCHANGED <<client, server, peer_closed, history>>

\* The peer ends the open connection: "ok" with a close handshake, "error"
\* without one (the TCP connection drops).
ServerClose(how) ==
    /\ open > 0
    /\ peer_closed = "no"
    /\ peer_closed' = how
    /\ UNCHANGED <<client, server, wire, sent, history>>

\* ------------------------------------------------------------ the client
\* What websockets.connect(uri) does against the peer: "ok", or the
\* exception it raises.
ConnectOutcome ==
    CASE server = "up" -> NoExc
      [] server = "down" ->
           [cls |-> "ConnectionRefusedError", msg |-> "Connect call failed"]
      [] server = "bad" ->
           [cls |-> "InvalidHandshake", msg |-> "server rejected WebSocket connection"]

\* Line 10: async with websockets.connect(uri) as websocket (entering).
Connect ==
    /\ pc = "connect"
    /\ attempts < MaxAttempts
    /\ attempts' = attempts + 1
    /\ waited' = 0
    /\ received' = <<>>
    /\ mark' = Len(stdout)
    /\ LET e == ConnectOutcome
       IN  IF e = NoExc
           THEN /\ open' = open + 1
                /\ pc' = "recv"
                /\ wire' = <<>>
                /\ peer_closed' = "no"
                /\ cause' = "none"
                /\ fails' = 0
                /\ UNCHANGED <<exc, failures>>
           ELSE /\ exc' = e
                /\ pc' = OuterDispatch(e)
                /\ cause' = IF "OSError" \in Mro(e.cls) THEN "unreachable" ELSE "handshake"
                /\ fails' = IF "OSError" \in Mro(e.cls) THEN fails + 1 ELSE 0
                /\ failures' = failures + 1
                /\ UNCHANGED <<open, wire, peer_closed>>
    /\ UNCHANGED <<message, log_data, stdout, server, sent>>

\* What websocket.recv() raises once the peer has ended the connection.
ClosedExc ==
    IF peer_closed = "ok"
    THEN [cls |-> "ConnectionClosedOK", msg |-> "received 1000 (OK); then sent 1000 (OK)"]
    ELSE [cls |-> "ConnectionClosedError", msg |-> "no close frame received or sent"]

\* Line 13: message = await websocket.recv().  Frames already received from
\* the peer are delivered before the close is reported; with neither, the
\* call stays suspended.
Recv ==
    /\ pc = "recv"
    /\ \/ /\ wire # <<>>
          /\ message' = Head(wire)
          /\ wire' = Tail(wire)
          /\ received' = Append(received, Head(wire))
          /\ pc' = "decode"
          /\ UNCHANGED <<exc, cause, failures>>
       \/ /\ wire = <<>>
          /\ peer_closed # "no"
          /\ exc' = ClosedExc
          /\ pc' = InnerDispatch(ClosedExc)
          /\ cause' = IF peer_closed = "ok" THEN "closed_ok" ELSE "closed_error"
          /\ failures' = failures + 1
          /\ UNCHANGED <<message, wire, received>>
    /\ UNCHANGED <<open, log_data, stdout, server, peer_closed,
                   attempts, sent, waited, fails, mark>>

\* Lines 14-15: log_data = json.loads(message); print(f"[...] ...").
DecodeAndPrint ==
    /\ pc = "decode"
    /\ \E r \in {json_loads(message)} : \E f \in {FormatLine(r.val)} :
           IF ~r.ok
           THEN /\ exc' = r.exc
                /\ pc' = InnerDispatch(r.exc)
                /\ cause' = "decode_error"
                /\ failures' = failures + 1
                /\ UNCHANGED <<log_data, stdout>>
           ELSE /\ log_data' = r.val
                /\ IF f.ok
                   THEN /\ stdout' = print(stdout, f.line)
                        /\ pc' = "recv"
                        /\ UNCHANGED <<exc, cause, failures>>
                   ELSE /\ exc' = f.exc
                        /\ pc' = InnerDispatch(f.exc)
                        /\ cause' = "decode_error"
                        /\ failures' = failures + 1
                        /\ UNCHANGED stdout
    /\ UNCHANGED <<open, message, server, wire, peer_closed,
                   attempts, sent, waited, fails, received, mark>>

\* ExceptClosed with the retry delay applied before the break.
ExceptClosed_Backoff ==
    /\ pc = "except_closed"
    /\ stdout' = print(stdout, ConnectionClosedMsg)
    /\ waited' = waited + RetryDelay
    /\ pc' = "aexit"
    /\ UNCHANGED <<open, message, log_data, exc, server, wire, peer_closed,
                   sent, attempts, cause, fails, failures, received, mark>>

\* Lines 16-18: except ConnectionClosed: print("Connection closed."); break.
ExceptClosed ==
    /\ pc = "except_closed"
    /\ stdout' = print(stdout, ConnectionClosedMsg)
    /\ pc' = "aexit"
    /\ UNCHANGED <<open, message, log_data, exc, server, wire, peer_closed,
                   sent, history>>

\* ExceptError with continue in place of break.
ExceptError_Continue ==
    /\ pc = "except_error"
    /\ stdout' = print(stdout, ErrorPrefix \o exc.msg)
    /\ pc' = "recv"
    /\ UNCHANGED <<open, message, log_data, exc, server, wire, peer_closed,
                   sent, history>>

\* Lines 19-21: except Exception as e: print(f"An error occurred: {e}"); break.
ExceptError ==
    /\ pc = "except_error"
    /\ stdout' = print(stdout, ErrorPrefix \o exc.msg)
    /\ pc' = "aexit"
    /\ UNCHANGED <<open, message, log_data, exc, server, wire, peer_closed,
                   sent, history>>

\* AExit without the close: the connection is left open.
AExit_Leak ==
    /\ pc = "aexit"
    /\ wire' = <<>>
    /\ peer_closed' = "no"
    /\ pc' = "connect"
    /\ UNCHANGED <<open, message, log_data, exc, stdout, server, sent, history>>

\* Line 10: leaving the async with block closes the connection; the outer
\* while True then starts over.
AExit ==
    /\ pc = "aexit"
    /\ open' = open - 1
    /\ wire' = <<>>
    /\ peer_closed' = "no"
    /\ pc' = "connect"
    /\ UNCHANGED <<message, log_data, exc, stdout, server, sent, history>>

\* ExceptFailed without the print.
ExceptFailed_Silent ==
    /\ pc = "except_failed"
    /\ pc' = "sleep"
    /\ UNCHANGED <<open, message, log_data, exc, stdout, server, wire,
                   peer_closed, sent, history>>

\* Lines 22-23: except (OSError, ConnectionClosedError): print(...).
ExceptFailed ==
    /\ pc = "except_failed"
    /\ stdout' = print(stdout, ConnectionFailedMsg)
    /\ pc' = "sleep"
    /\ UNCHANGED <<open, message, log_data, exc, server, wire, peer_closed,
                   sent, history>>

\* Sleep in a loop that gives up after two failed connects in a row.
Sleep_GiveUp ==
    /\ pc = "sleep"
    /\ waited' = waited + RetryDelay
    /\ pc' = IF fails >= 2 THEN "returned" ELSE "connect"
    /\ UNCHANGED <<open, message, log_data, exc, stdout, server, wire,
                   peer_closed, attempts, sent, cause, fails, failures,
                   received, mark>>

\* Line 24: await asyncio.sleep(5); the outer while True then starts over.
Sleep ==
    /\ pc = "sleep"
    /\ waited' = waited + RetryDelay
    /\ pc' = "connect"
    /\ UNCHANGED <<open, message, log_data, exc, stdout, server, wire,
                   peer_closed, attempts, sent, cause, fails, failures,
                   received, mark>>

Next ==
    \/ \E s \in {"down", "bad", "up"} : ServerSet(s)
    \/ \E f \in Frames : ServerSend(f)
    \/ \E how \in {"ok", "error"} : ServerClose(how)
    \/ Connect
    \/ Recv
    \/ DecodeAndPrint
    \/ ExceptClosed
    \/ ExceptError
    \/ AExit
    \/ ExceptFailed
    \/ Sleep

Spec == Init /\ [][Next]_vars

\* The same client against a peer that sends the frames of TypedFrames:
\* objects whose values are not strings, and JSON values that are not objects.
TypedNext ==
    \/ \E s \in {"down", "bad", "up"} : ServerSet(s)
    \/ \E f \in TypedFrames : ServerSend(f)
    \/ \E how \in {"ok", "error"} : ServerClose(how)
    \/ Connect
    \/ Recv
    \/ DecodeAndPrint
    \/ ExceptClosed
    \/ ExceptError
    \/ AExit
    \/ ExceptFailed
    \/ Sleep

TypedSpec == Init /\ [][TypedNext]_vars

\* ------------------------------------------------------------- liveness
\* The peer is unreachable at startup; once it listens it keeps listening
\* and completes every handshake.
LiveFrames == {FrameInfo, FrameNoMessage}

LiveInit == Init /\ server = "down"

\* The peer becomes available, at any moment.
ServerUp ==
    /\ server = "down"
    /\ server' = "up"
    /\ UNCHANGED <<client, wire, peer_closed, sent, history>>

LiveNext ==
    \/ ServerUp
    \/ \E f \in LiveFrames : ServerSend(f)
    \/ \E how \in {"ok", "error"} : ServerClose(how)
    \/ Connect
    \/ Recv
    \/ DecodeAndPrint
    \/ ExceptClosed
    \/ ExceptError
    \/ AExit
    \/ ExceptFailed
    \/ Sleep

\* A step of the client task.
ClientNext ==
    \/ Connect
    \/ Recv
    \/ DecodeAndPrint
    \/ ExceptClosed
    \/ ExceptError
    \/ AExit
    \/ ExceptFailed
    \/ Sleep

\* The event loop runs the one task whenever it can continue: a step of the
\* client that stays possible is eventually taken.  Nothing is assumed of
\* the peer.
LiveSpec == LiveInit /\ [][LiveNext]_vars /\ WF_vars(ClientNext)

\* ============================================================ properties
Last(seq) == seq[Len(seq)]
Front(seq) == SubSeq(seq, 1, Len(seq) - 1)

\* The line the specification gives for the frame {"type": T, "message": M}.
LineOf(T, M) == "[" \o T \o "] " \o M

\* The lines of a sequence of frames Frame(T, M), one each, in order.
ExpectedLines(fs) == [i \in 1..Len(fs) |-> LineOf(fs[i][4], fs[i][8])]

\* What has been printed since the last connect call.
Segment == SubSeq(stdout, mark + 1, Len(stdout))

\* The texts an exception of the receive/decode step can carry.
ErrorTexts ==
    {"Expecting value", "Expecting property name enclosed in double quotes",
     "Expecting ':' delimiter", "Expecting ',' delimiter", "Extra data",
     "'type'", "'message'", "list indices must be integers or slices, not str",
     "string indices must be integers, not 'str'",
     "'int' object is not subscriptable", "'bool' object is not subscriptable",
     "'NoneType' object is not subscriptable"}

ErrorDiagnostics == {ErrorPrefix \o t : t \in ErrorTexts}
Diagnostics == {ConnectionClosedMsg, ConnectionFailedMsg} \cup ErrorDiagnostics

\* The diagnostic lines printed so far.
NumDiagnostics == Cardinality({i \in 1..Len(stdout) : stdout[i] \in Diagnostics})

\* C1: handling a received frame that is the JSON object {"type": T,
\* "message": M} adds exactly the one line "[T] M" to standard output and
\* returns to waiting for the next frame of the same open connection.
C1_WellFormedFramePrinted ==
    [][\A T \in StringLits, M \in StringLits :
         (pc = "decode" /\ message = Frame(T, M) /\ pc' # pc)
            => /\ stdout' = Append(stdout, LineOf(T, M))
               /\ pc' = "recv"
               /\ open' = open /\ open = 1]_vars

C1_Witness ==
    /\ pc = "recv"
    /\ received # <<>> /\ Last(received) = FrameInfo
    /\ stdout # <<>> /\ Last(stdout) = "[INFO] started"

\* C2: listen never returns and never propagates an error, whatever
\* connect, receive and decode do.
C2_NeverExits == pc # "raised"

\* C3: after a failed connect to an unreachable host and after an abrupt
\* close of an established connection alike, the client has waited the
\* 5 seconds when it makes the next connect attempt.
C3_ConnectionFailureThenWait ==
    (pc = "connect" /\ cause \in {"unreachable", "closed_error"})
        => waited = RetryDelay

\* C4: a connect that fails in the handshake is handled like an unreachable
\* peer: the client prints the "Connection failed" diagnostic, waits
\* 5 seconds and is back at the connect.
C4_HandshakeFailureRetried ==
    cause = "handshake"
        => \/ pc = "except_failed"
           \/ pc = "sleep" /\ Last(stdout) = ConnectionFailedMsg
           \/ pc = "connect" /\ Last(stdout) = ConnectionFailedMsg /\ waited = RetryDelay

\* C5: with the peer unreachable, every failed connect is followed by the
\* "Connection failed" diagnostic, then the 5-second wait, then the next
\* connect; after any number of failures in a row the client is still in
\* that cycle, one diagnostic per failure.
C5_UnreachableRetryCycle ==
    cause = "unreachable"
        => /\ pc \in {"except_failed", "sleep", "connect"}
           /\ fails >= 1
           /\ pc = "except_failed" => waited = 0
           /\ pc = "sleep" => waited = 0 /\ Segment = <<ConnectionFailedMsg>>
           /\ pc = "connect" => waited = RetryDelay /\ Segment = <<ConnectionFailedMsg>>
           /\ LET n == IF pc = "except_failed" THEN fails - 1 ELSE fails
              IN  /\ Len(stdout) >= n
                  /\ \A i \in (Len(stdout) - n + 1)..Len(stdout) :
                         stdout[i] = ConnectionFailedMsg

C5_Witness ==
    /\ cause = "unreachable" /\ pc = "connect"
    /\ fails = 2 /\ attempts < MaxAttempts

\* C6: after a clean close by the peer the client prints "Connection
\* closed." and is at the next connect without having waited; the client
\* sleeps only after a failed connect.
C6_CleanCloseNoWait ==
    /\ cause = "closed_ok"
          => /\ pc \in {"except_closed", "aexit", "connect"}
             /\ waited = 0
             /\ pc \in {"aexit", "connect"} => Last(stdout) = ConnectionClosedMsg
    /\ (pc = "sleep" \/ waited > 0) => cause \in {"unreachable", "handshake"}

C6_Witness ==
    /\ cause = "closed_ok" /\ pc = "connect"
    /\ waited = 0 /\ Last(stdout) = ConnectionClosedMsg
    /\ attempts < MaxAttempts

\* C7: a frame that is not valid JSON, or lacks "type" or "message", does
\* not stop the client, adds no "[type] message" line, adds exactly one
\* "An error occurred: ..." line, and ends the connection.
C7_MalformedFrame ==
    (received # <<>> /\ Last(received) \in MalformedFrames)
        => /\ pc \in {"decode", "except_error", "aexit", "connect"}
           /\ pc \in {"decode", "except_error"}
                 => Segment = ExpectedLines(Front(received))
           /\ pc \in {"aexit", "connect"}
                 => /\ Segment = Append(ExpectedLines(Front(received)),
                                        ErrorPrefix \o exc.msg)
                    /\ Last(stdout) \in ErrorDiagnostics
           /\ pc = "connect" => open = 0

C7_Witness ==
    /\ Len(received) = 2 /\ received[2] = FrameNoMessage
    /\ pc = "connect" /\ open = 0
    /\ Last(stdout) = "An error occurred: 'message'"

\* C8: whenever the client is at a connect attempt or has stopped, every
\* failure so far (failed connect, close by the peer, decode or other error)
\* has had its one diagnostic line printed.
C8_EveryFailureDiagnosed ==
    pc \in {"connect", "raised"} => NumDiagnostics = failures

\* C9: at most one connection is open, and none is open while the client is
\* at, or on its way back to, a connect attempt.
C9_OneConnection ==
    /\ open <= 1
    /\ pc \in {"connect", "except_failed", "sleep", "raised"} => open = 0
    /\ pc \in {"recv", "decode", "except_closed", "except_error", "aexit"} => open = 1

C9_Witness ==
    /\ attempts = 2 /\ pc = "recv" /\ open = 1
    /\ cause = "none" /\ stdout # <<>>

\* C10: on one connection the lines printed are those of the well-formed
\* frames received, one each, in order; "Connection closed." follows them
\* and precedes the next connect attempt.
C10_FramesInOrderThenClosed ==
    /\ pc \in {"recv", "except_closed"}
          => /\ \A i \in 1..Len(received) : received[i] \in WellFormedFrames
             /\ Segment = ExpectedLines(received)
    /\ pc = "decode"
          => /\ \A i \in 1..(Len(received) - 1) : received[i] \in WellFormedFrames
             /\ Segment = ExpectedLines(Front(received))
    /\ (cause \in {"closed_ok", "closed_error"} /\ pc \in {"aexit", "connect"})
          => /\ \A i \in 1..Len(received) : received[i] \in WellFormedFrames
             /\ Segment = Append(ExpectedLines(received), ConnectionClosedMsg)

C10_Witness ==
    /\ received = <<FrameError, FrameInfo>>
    /\ cause = "closed_ok" /\ pc = "connect"
    /\ Segment = <<"[ERROR] disk full", "[INFO] started", "Connection closed.">>

\* The lines a well-formed frame can print.
FrameLines == {LineOf(T, M) : T \in LogTypes, M \in LogMessages}

\* The positions of the lines printed since the last connect call that are
\* not frame lines.
SegmentDiagnostics == {i \in 1..Len(Segment) : Segment[i] \notin FrameLines}

\* C12: once a frame has raised a decode or other per-message error, the
\* client receives and prints no further frame of that connection (only the
\* diagnostic is printed, the frames still in flight are discarded), and
\* its next step after leaving the connection is a connect call made
\* without having waited.
C12_ErrorEndsConnection ==
    /\ [](cause = "decode_error"
            => /\ pc \in {"except_error", "aexit", "connect"}
               /\ waited = 0
               /\ pc = "except_error" => Segment = ExpectedLines(Front(received))
               /\ pc \in {"aexit", "connect"}
                     => Segment = Append(ExpectedLines(Front(received)),
                                         ErrorPrefix \o exc.msg)
               /\ pc = "connect" => wire = <<>> /\ open = 0)
    /\ [][/\ (cause = "decode_error" /\ cause' = "decode_error")
                => /\ received' = received
                   /\ message' = message
                   /\ stdout' \in {stdout, Append(stdout, ErrorPrefix \o exc.msg)}
          /\ (cause = "decode_error" /\ cause' # "decode_error")
                => /\ pc = "connect"
                   /\ attempts' = attempts + 1
                   /\ waited = 0]_vars

C12_Witness ==
    /\ cause = "decode_error" /\ pc = "aexit"
    /\ received = <<FrameNoType>>
    /\ wire = <<FrameInfo>>
    /\ Segment = <<"An error occurred: 'type'">>

\* C13: a connection that has ended has printed exactly one diagnostic, as
\* its last line: "Connection closed." when recv reported the close, an
\* "An error occurred: ..." line after a per-message error; a connection
\* still open has printed none; "Connection failed..." is printed only after
\* a connect call that opened no connection.
C13_OneDiagnosticPerConnection ==
    /\ pc \in {"recv", "decode", "except_closed", "except_error"}
          => SegmentDiagnostics = {}
    /\ (pc \in {"aexit", "connect"} /\ cause \in {"closed_ok", "closed_error"})
          => /\ SegmentDiagnostics = {Len(Segment)}
             /\ Last(Segment) = ConnectionClosedMsg
    /\ (pc \in {"aexit", "connect"} /\ cause = "decode_error")
          => /\ SegmentDiagnostics = {Len(Segment)}
             /\ Last(Segment) \in ErrorDiagnostics
    /\ (\E i \in 1..Len(Segment) : Segment[i] = ConnectionFailedMsg)
          => /\ cause = "unreachable"
             /\ open = 0
             /\ received = <<>>
             /\ Segment = <<ConnectionFailedMsg>>

C13_Witness ==
    /\ pc = "connect" /\ cause = "closed_error"
    /\ received = <<FrameInfo>>
    /\ Segment = <<"[INFO] started", ConnectionClosedMsg>>

\* C14: the client sleeps only with no connection open and right after
\* printing "Connection failed. Retrying in 5 seconds...".
C14_SleepOnlyDisconnected ==
    /\ [](pc = "sleep"
            => /\ open = 0
               /\ stdout # <<>>
               /\ Last(stdout) = ConnectionFailedMsg)
    /\ [][waited' > waited
            => /\ pc = "sleep"
               /\ open = 0 /\ open' = 0
               /\ stdout # <<>> /\ Last(stdout) = ConnectionFailedMsg
               /\ waited' = waited + RetryDelay]_vars

C14_Witness ==
    /\ pc = "sleep" /\ open = 0
    /\ attempts = 2
    /\ Len(stdout) >= 2
    /\ Last(stdout) = ConnectionFailedMsg

\* The line Python prints for each frame of NonStringValueFrames.
TypedLine(f) ==
    CASE f = FrameNumberType -> "[7] started"
      [] f = FrameNullMessage -> "[INFO] None"
      [] f = FrameBoolMessage -> "[INFO] True"
      [] f = FrameArrayMessage -> "[INFO] [7]"
      [] f = FrameObjectType -> "[{}] started"

\* C15: a JSON object with keys "type" and "message" is printed as one
\* "[type] message" line and the connection stays open even when a value is
\* a number, null, a boolean, an array or an object; valid JSON that is not
\* an object (array, string, number, null) prints no frame line, gets an
\* "An error occurred: ..." diagnostic and ends the connection.
C15_KeysCheckedNotTypes ==
    /\ [][(pc = "decode" /\ pc' # pc)
            => /\ message \in NonStringValueFrames
                     => /\ stdout' = Append(stdout, TypedLine(message))
                        /\ pc' = "recv"
                        /\ open = 1 /\ open' = 1
               /\ message \in NonObjectFrames
                     => /\ stdout' = stdout
                        /\ pc' = "except_error"
                        /\ exc'.cls = "TypeError"]_vars
    /\ []((received # <<>> /\ Last(received) \in NonObjectFrames)
            => /\ pc \in {"decode", "except_error", "aexit", "connect"}
               /\ pc \in {"decode", "except_error"}
                     => Len(Segment) = Len(received) - 1
               /\ pc \in {"aexit", "connect"}
                     => /\ Len(Segment) = Len(received)
                        /\ Last(Segment) = ErrorPrefix \o exc.msg
                        /\ Last(Segment) \in ErrorDiagnostics
               /\ pc = "connect" => open = 0)

C15_Witness ==
    /\ pc = "recv" /\ open = 1
    /\ received = <<FrameNullMessage, FrameNumberType>>
    /\ Segment = <<"[INFO] None", "[7] started">>

\* The frames the peer has sent on the open connection, in order: those
\* received and those still in flight.
ConnFrames == received \o wire

\* C11 as stated: every well-formed frame the peer sends on an established
\* connection is eventually printed; so the client never leaves a connection
\* with a well-formed frame still undelivered.
C11_NoWellFormedFrameDropped ==
    pc = "aexit" => \A i \in 1..Len(wire) : wire[i] \notin WellFormedFrames

\* C11 (amended): with the peer unreachable at startup, the first connection
\* is preceded by nothing but "Connection failed..." lines, one per failed
\* connect; once the peer is and stays available the client gets connected;
\* and the n-th frame sent on a connection is eventually printed, after
\* the lines of the frames before it, provided it and every frame sent
\* before it on that connection are well-formed.
C11_EventuallyConnectedAndPrinted ==
    /\ [][(pc = "connect" /\ pc' = "recv" /\ fails = attempts)
            => stdout' = [i \in 1..attempts |-> ConnectionFailedMsg]]_vars
    /\ (server = "up" /\ open = 0 /\ attempts < MaxAttempts)
          ~> (open = 1 /\ pc = "recv")
    /\ \A a \in 1..MaxAttempts, n \in 1..MaxSent :
          (/\ attempts = a /\ open = 1
           /\ Len(ConnFrames) >= n
           /\ \A i \in 1..n : ConnFrames[i] \in WellFormedFrames)
             ~> (/\ attempts = a
                 /\ Len(received) >= n
                 /\ Len(Segment) >= n
                 /\ \A i \in 1..n :
                       /\ received[i] \in WellFormedFrames
                       /\ Segment[i] = LineOf(received[i][4], received[i][8]))

C11_Witness ==
    /\ server = "up" /\ pc = "recv" /\ open = 1
    /\ attempts = 3 /\ failures = 2
    /\ stdout = <<ConnectionFailedMsg, ConnectionFailedMsg, "[INFO] started">>
====
